---- MODULE Spec2Model ----
(***************************************************************************)
(* RawTenantAccessWorkload (fdbserver/workloads/RawTenantAccessWorkload    *)
(* .actor.cpp): the local tenant model, its reconciliation with the store, *)
(* the random transaction planner and the retry loop with its illegal      *)
(* access oracle.  The store (tenant map behind the special key space,     *)
(* commit, illegal_tenant_access) is the external collaborator described   *)
(* in the design document, sections 3, 6 and 8.                            *)
(***************************************************************************)
EXTENDS Integers, FiniteSets, Sequences, TLC

\* ---------------------------------------------------------------- bounds
tenantCount == 2        \* option "tenantCount" of the workload
MaxTid == 3             \* tenant identifiers are drawn from 0..MaxTid

\* ------------------------------------------------------ program constants
OpsPerTxn == 10         \* "the transaction will randomly run 10 ops"
OpKinds == 4            \* randomInt(0, 4)

Slots == 0 .. (tenantCount - 1)
Tids == 0 .. MaxTid
Ops == 0 .. (OpKinds - 1)

VARIABLES
    lastCreatedTenants,   \* std::set<int>
    lastDeletedTenants,   \* std::set<int>
    idx2Tid,              \* std::map<int, int64_t>
    tid2Idx,              \* std::map<int64_t, int>
    pc,                   \* position of client 0 in setup / _start
    failure,              \* why the workload died, "none" while it runs
    i,                    \* loop counter of the op loop
    illegalAccess,        \* state bool of randomTenantTransaction
    illegalAccessCaught,  \* state bool of randomTenantTransaction
    tr,                   \* mutations buffered in the transaction
    storeTenants,         \* the store's tenant map: slot (name) -> identifier
    nextTid,              \* the store's identifier counter: the next one it assigns
    storeData,            \* identifiers whose data range holds writeKey
    attemptIllegal,       \* history: writeToInvalidTenant ran in this attempt
    invalidWritten        \* history: the identifiers it wrote to in this attempt

vars == << lastCreatedTenants, lastDeletedTenants, idx2Tid, tid2Idx, pc, failure,
           i, illegalAccess, illegalAccessCaught, tr, storeTenants, nextTid,
           storeData, attemptIllegal, invalidWritten >>

model == << lastCreatedTenants, lastDeletedTenants, idx2Tid, tid2Idx >>
store == << storeTenants, nextTid, storeData >>
flags == << illegalAccess, illegalAccessCaught >>

\* ------------------------------------------------------------- std::map
EmptyMap == [x \in {} |-> 0]
MapErase(m, k) == [x \in (DOMAIN m) \ {k} |-> m[x]]
MapPut(m, k, v) == [x \in (DOMAIN m) \cup {k} |-> IF x = k THEN v ELSE m[x]]
SetMin(S) == CHOOSE x \in S : \A y \in S : x <= y

\* ------------------------------------------------- ReadYourWritesTransaction
\* ctl: the last mutation buffered on each tenant's special key;
\* writes: identifiers whose raw data prefix received a set.
EmptyTr == [ctl |-> [s \in Slots |-> "none"], writes |-> {}]
TrSet(t, idx) == [t EXCEPT !.ctl[idx] = "set"]
TrClear(t, idx) == [t EXCEPT !.ctl[idx] = "clear"]
TrWrite(t, tid) == [t EXCEPT !.writes = @ \cup {tid}]

\* ------------------------------------------------------------------ store
\* An identifier is a valid tenant for a commit when the store holds a tenant with
\* that identifier and the committing transaction does not delete that tenant.
StoreValid(t, tid) ==
    \E s \in DOMAIN storeTenants : storeTenants[s] = tid /\ t.ctl[s] # "clear"

\* illegal_tenant_access: some data write targets an identifier that is not valid.
StoreRejects(t) == \E tid \in t.writes : ~StoreValid(t, tid)

StoreCreates(t) == {s \in Slots : t.ctl[s] = "set" /\ s \notin DOMAIN storeTenants}
StoreDeletes(t) == {s \in Slots : t.ctl[s] = "clear" /\ s \in DOMAIN storeTenants}

\* The identifiers the store hands to the tenants in S: it counts upwards, in the
\* order of the tenants' names, so that no identifier is ever handed out twice.
FreshAssignment(S) ==
    [s \in S |-> nextTid + Cardinality({r \in S : r < s})]

\* The identifier space of the model is not exhausted by creating the tenants in S.
CanAssign(S) == nextTid + Cardinality(S) - 1 <= MaxTid

\* The tenant map after the transaction's tenant mutations, given fresh identifiers.
StoreApply(t, ids) ==
    [s \in ((DOMAIN storeTenants) \ StoreDeletes(t)) \cup StoreCreates(t) |->
        IF s \in StoreCreates(t) THEN ids[s] ELSE storeTenants[s]]

\* Reading a tenant's special key: a value holding the identifier, if the tenant exists.
StoreGet(idx) ==
    IF idx \in DOMAIN storeTenants
      THEN [present |-> TRUE, value |-> [id |-> storeTenants[idx]]]
      ELSE [present |-> FALSE, value |-> [id |-> -1]]

\* --------------------------------------------------------------- workload
extractTenantId(value) == value.id

predictTenantCount ==
    Cardinality(DOMAIN idx2Tid) + Cardinality(lastCreatedTenants)
        - Cardinality(lastDeletedTenants)

Fail(why) == pc' = "failed" /\ failure' = why

\* eraseDeletedTenants, the loop over lastDeletedTenants in ascending order.
\* std::map::at throws std::out_of_range on a missing key.
RECURSIVE EraseLoop(_, _, _)
EraseLoop(pending, i2t, t2i) ==
    IF pending = {}
      THEN [idx2Tid |-> i2t, tid2Idx |-> t2i, threw |-> FALSE]
      ELSE LET idx == SetMin(pending) IN
           IF idx \notin DOMAIN t2i
             THEN [idx2Tid |-> i2t, tid2Idx |-> t2i, threw |-> TRUE]
             ELSE LET tid == t2i[idx] IN
                  EraseLoop(pending \ {idx}, MapErase(i2t, idx), MapErase(t2i, tid))

\* eraseDeletedTenants without line 100, lastDeletedTenants.clear().
eraseDeletedTenants_KeepsMarkers ==
    LET r == EraseLoop(lastDeletedTenants, idx2Tid, tid2Idx) IN
    /\ idx2Tid' = r.idx2Tid
    /\ tid2Idx' = r.tid2Idx
    /\ UNCHANGED lastDeletedTenants
    /\ IF r.threw
         THEN Fail("out_of_range")
         ELSE pc' = "load" /\ UNCHANGED failure

eraseDeletedTenants ==
    LET r == EraseLoop(lastDeletedTenants, idx2Tid, tid2Idx) IN
    /\ idx2Tid' = r.idx2Tid
    /\ tid2Idx' = r.tid2Idx
    /\ IF r.threw
         THEN /\ Fail("out_of_range")
              /\ UNCHANGED lastDeletedTenants
         ELSE /\ lastDeletedTenants' = {}
              /\ pc' = "load"
              /\ UNCHANGED failure

\* applyTenantChanges, the loop over lastCreatedTenants in ascending order.
RECURSIVE LoadLoop(_, _, _)
LoadLoop(pending, i2t, t2i) ==
    IF pending = {}
      THEN [idx2Tid |-> i2t, tid2Idx |-> t2i, asserted |-> FALSE]
      ELSE LET idx == SetMin(pending)
               got == StoreGet(idx)
           IN  IF ~got.present
                 THEN [idx2Tid |-> i2t, tid2Idx |-> t2i, asserted |-> TRUE]
                 ELSE LET id == extractTenantId(got.value) IN
                      LoadLoop(pending \ {idx}, MapPut(i2t, idx, id), MapPut(t2i, id, idx))

\* The scan of createNewTenant moving on from a slot that is in either container.
RECURSIVE CreateScan_SkipsEither(_, _)
CreateScan_SkipsEither(tenantIdx, steps) ==
    IF tenantIdx \in DOMAIN idx2Tid \/ tenantIdx \in lastCreatedTenants
      THEN IF steps = tenantCount THEN -1
           ELSE CreateScan_SkipsEither((tenantIdx + 1) % tenantCount, steps + 1)
      ELSE tenantIdx

\* createNewTenant, "find the nearest non-existed tenant"; -1 when the loop
\* has gone once around without leaving.
RECURSIVE CreateScan(_, _)
CreateScan(tenantIdx, steps) ==
    IF tenantIdx \in DOMAIN idx2Tid /\ tenantIdx \in lastCreatedTenants
      THEN IF steps = tenantCount THEN -1
           ELSE CreateScan((tenantIdx + 1) % tenantCount, steps + 1)
      ELSE tenantIdx

\* deleteExistedTenant without its scan: the random index is taken as it is drawn.
DeleteScan_NoScan(tenantIdx, steps) == tenantIdx

\* deleteExistedTenant, "find the nearest existed tenant"; -1 as above.
RECURSIVE DeleteScan(_, _)
DeleteScan(tenantIdx, steps) ==
    IF (tenantIdx \in DOMAIN idx2Tid \/ tenantIdx \in lastCreatedTenants)
         /\ tenantIdx \notin lastDeletedTenants
      THEN tenantIdx
      ELSE IF steps = tenantCount THEN -1
           ELSE DeleteScan((tenantIdx + 1) % tenantCount, steps + 1)

\* idx2Tid.lower_bound(tenantIdx), or begin() when that is end().
LowerBoundOrBegin(tenantIdx) ==
    LET ge == {k \in DOMAIN idx2Tid : k >= tenantIdx} IN
    IF ge = {} THEN SetMin(DOMAIN idx2Tid) ELSE SetMin(ge)

\* createNewTenant without line 155, lastDeletedTenants.erase(tenantIdx).
createNewTenant_KeepsDeleted(tenantIdx) ==
    /\ tr' = TrSet(tr, tenantIdx)
    /\ lastCreatedTenants' = lastCreatedTenants \cup {tenantIdx}
    /\ UNCHANGED lastDeletedTenants

\* createNewTenant once its scan has found tenantIdx.
createNewTenant(tenantIdx) ==
    /\ tr' = TrSet(tr, tenantIdx)
    /\ lastCreatedTenants' = lastCreatedTenants \cup {tenantIdx}
    /\ lastDeletedTenants' = lastDeletedTenants \ {tenantIdx}

\* deleteExistedTenant once its scan has found tenantIdx.
deleteExistedTenant(tenantIdx) ==
    /\ tr' = TrClear(tr, tenantIdx)
    /\ lastCreatedTenants' = lastCreatedTenants \ {tenantIdx}
    /\ lastDeletedTenants' = lastDeletedTenants \cup {tenantIdx}

\* writeToExistedTenant once tenantIdx is determined.
writeToExistedTenant(tenantIdx) ==
    LET tenantId == idx2Tid[tenantIdx] IN tr' = TrWrite(tr, tenantId)

\* randomInt64 redrawn while tid2Idx.count(tenantId).
Samples == Tids \ DOMAIN tid2Idx

\* The identifier writeToInvalidTenant writes to; -1 when idx2Tid.at throws.
InvalidTenantId(coin, sample) ==
    IF coin /\ lastDeletedTenants # {}
      THEN LET idx == SetMin(lastDeletedTenants) IN
           IF idx \in DOMAIN idx2Tid THEN idx2Tid[idx] ELSE -1
      ELSE sample

\* Every identifier writeToInvalidTenant can come to, over the coin flip and the
\* samples (the first branch draws no sample).
InvalidTenantIds ==
    (IF lastDeletedTenants # {} THEN {InvalidTenantId(TRUE, -1)} ELSE {})
        \cup {InvalidTenantId(FALSE, sample) : sample \in Samples}

\* ---------------------------------------------------------------- actions
Init ==
    /\ lastCreatedTenants = {}
    /\ lastDeletedTenants = {}
    /\ idx2Tid = EmptyMap
    /\ tid2Idx = EmptyMap
    /\ pc = "setup"
    /\ failure = "none"
    /\ i = 0
    /\ illegalAccess = FALSE
    /\ illegalAccessCaught = FALSE
    /\ tr = EmptyTr
    /\ storeTenants = EmptyMap
    /\ nextTid \in 0 .. (MaxTid + 1 - tenantCount)
    /\ storeData = {}
    /\ attemptIllegal = FALSE
    /\ invalidWritten = {}

locals == << i, illegalAccess, illegalAccessCaught, tr, attemptIllegal, invalidWritten >>

\* The state variables of randomTenantTransaction before its loop, and after the
\* actor is gone (returned, or ended by the error it threw).
NoTransaction ==
    /\ i' = 0
    /\ tr' = EmptyTr
    /\ illegalAccess' = FALSE
    /\ illegalAccessCaught' = FALSE
    /\ attemptIllegal' = FALSE
    /\ invalidWritten' = {}

\* _setup: one transaction creates every tenant, then every index is marked created.
Setup ==
    /\ pc = "setup"
    /\ CanAssign(Slots)
    /\ storeTenants' = FreshAssignment(Slots)
    /\ nextTid' = nextTid + tenantCount
    /\ lastCreatedTenants' = Slots
    /\ pc' = "apply"
    /\ UNCHANGED << lastDeletedTenants, idx2Tid, tid2Idx, failure, locals, storeData >>

\* applyTenantChanges up to its first wait.
EraseDeletedTenants ==
    /\ pc = "apply"
    /\ eraseDeletedTenants
    /\ UNCHANGED << lastCreatedTenants, locals, store >>

\* applyTenantChanges from its first read to its return.
LoadTenantIds ==
    /\ pc = "load"
    /\ LET r == LoadLoop(lastCreatedTenants, idx2Tid, tid2Idx) IN
       /\ idx2Tid' = r.idx2Tid
       /\ tid2Idx' = r.tid2Idx
       /\ IF r.asserted
            THEN Fail("assert_value_present") /\ UNCHANGED lastCreatedTenants
            ELSE /\ lastCreatedTenants' = {}
                 /\ pc' = "clearData"
                 /\ UNCHANGED failure
    /\ UNCHANGED << lastDeletedTenants, locals, store >>

\* clearAllTenantData: a raw clear under every identifier of tid2Idx.
ClearAllTenantData ==
    /\ pc = "clearData"
    /\ IF \E tid \in DOMAIN tid2Idx : ~StoreValid(EmptyTr, tid)
         THEN Fail("clear_rejected") /\ UNCHANGED storeData
         ELSE /\ storeData' = storeData \ DOMAIN tid2Idx
              /\ pc' = "txn"
              /\ UNCHANGED failure
    /\ UNCHANGED << model, locals, storeTenants, nextTid >>

\* randomTenantTransaction up to the first pass of its loop.
BeginTransaction ==
    /\ pc = "txn"
    /\ NoTransaction
    /\ pc' = "plan"
    /\ UNCHANGED << model, failure, store >>

Planning == pc = "plan" /\ i < OpsPerTxn

OpCreate ==
    /\ Planning
    /\ predictTenantCount < tenantCount
    /\ \E tenantIdx \in {CreateScan(start, 0) : start \in Slots} :
          IF tenantIdx = -1
            THEN /\ Fail("scan_never_ends")
                 /\ UNCHANGED << tr, lastCreatedTenants, lastDeletedTenants, i >>
            ELSE /\ createNewTenant(tenantIdx)
                 /\ i' = i + 1
                 /\ UNCHANGED << pc, failure >>
    /\ UNCHANGED << idx2Tid, tid2Idx, flags, store, attemptIllegal, invalidWritten >>

OpDelete ==
    /\ Planning
    /\ predictTenantCount > 0
    /\ \E tenantIdx \in {DeleteScan(start, 0) : start \in Slots} :
          IF tenantIdx = -1
            THEN /\ Fail("scan_never_ends")
                 /\ UNCHANGED << tr, lastCreatedTenants, lastDeletedTenants, i >>
            ELSE /\ deleteExistedTenant(tenantIdx)
                 /\ i' = i + 1
                 /\ UNCHANGED << pc, failure >>
    /\ UNCHANGED << idx2Tid, tid2Idx, flags, store, attemptIllegal, invalidWritten >>

OpIllegalWrite ==
    /\ Planning
    /\ predictTenantCount < tenantCount
    /\ \E tenantId \in InvalidTenantIds :
          IF tenantId = -1
            THEN /\ Fail("out_of_range")
                 /\ NoTransaction
            ELSE /\ tr' = TrWrite(tr, tenantId)
                 /\ illegalAccess' = TRUE
                 /\ attemptIllegal' = TRUE
                 /\ invalidWritten' = invalidWritten \cup {tenantId}
                 /\ i' = i + 1
                 /\ UNCHANGED << pc, failure, illegalAccessCaught >>
    /\ UNCHANGED << model, store >>

\* The legal write behind the gate of the illegal write; ASSERT_GT(idx2Tid.size(), 0)
\* of writeToExistedTenant then fails on an empty idx2Tid.
OpLegalWrite_GatedByPrediction ==
    /\ Planning
    /\ predictTenantCount < tenantCount
    /\ IF DOMAIN idx2Tid = {}
         THEN /\ Fail("assert_gt")
              /\ NoTransaction
              /\ UNCHANGED << model, store >>
         ELSE /\ \E tenantIdx \in {LowerBoundOrBegin(start) : start \in Slots} :
                    writeToExistedTenant(tenantIdx)
              /\ i' = i + 1
              /\ UNCHANGED << model, pc, failure, flags, store, attemptIllegal,
                              invalidWritten >>

OpLegalWrite ==
    /\ Planning
    /\ DOMAIN idx2Tid # {}
    /\ \E tenantIdx \in {LowerBoundOrBegin(start) : start \in Slots} :
          writeToExistedTenant(tenantIdx)
    /\ i' = i + 1
    /\ UNCHANGED << model, pc, failure, flags, store, attemptIllegal, invalidWritten >>

\* The kinds whose gate is closed: drawing one takes no branch of the if-chain.
SkippedOps ==
    {op \in Ops :
        \/ op = 0 /\ ~(predictTenantCount < tenantCount)
        \/ op = 1 /\ ~(predictTenantCount > 0)
        \/ op = 2 /\ ~(predictTenantCount < tenantCount)
        \/ op = 3 /\ ~(DOMAIN idx2Tid # {})}

\* The drawn kind is not feasible: no branch of the if-chain is taken.
OpSkip ==
    /\ Planning
    /\ SkippedOps # {}
    /\ i' = i + 1
    /\ UNCHANGED << model, pc, failure, flags, tr, store, attemptIllegal, invalidWritten >>

Committing == pc = "plan" /\ i = OpsPerTxn

\* A retry that also forgets the markers of the attempt it discards.
RetryAttempt_ClearsPending ==
    /\ tr' = EmptyTr
    /\ i' = 0
    /\ attemptIllegal' = FALSE
    /\ invalidWritten' = {}
    /\ lastCreatedTenants' = {}
    /\ lastDeletedTenants' = {}
    /\ UNCHANGED << idx2Tid, tid2Idx, pc, failure, illegalAccess, store >>

\* catch, onError, and tr->reset() at the top of the next pass.
RetryAttempt ==
    /\ tr' = EmptyTr
    /\ i' = 0
    /\ attemptIllegal' = FALSE
    /\ invalidWritten' = {}
    /\ UNCHANGED << model, pc, failure, illegalAccess, store >>

CommitTransient ==
    /\ Committing
    /\ UNCHANGED illegalAccessCaught
    /\ RetryAttempt

CommitIllegal ==
    /\ Committing
    /\ StoreRejects(tr)
    /\ illegalAccessCaught' = TRUE
    /\ RetryAttempt

CommitOk ==
    /\ Committing
    /\ ~StoreRejects(tr)
    /\ CanAssign(StoreCreates(tr))
    /\ storeTenants' = StoreApply(tr, FreshAssignment(StoreCreates(tr)))
    /\ nextTid' = nextTid + Cardinality(StoreCreates(tr))
    /\ storeData' = (storeData \cup tr.writes) \ {storeTenants[s] : s \in StoreDeletes(tr)}
    /\ pc' = "check"
    /\ UNCHANGED << model, failure, locals >>

\* ASSERT_EQ(illegalAccessCaught, illegalAccess), the return, and delay(0.5).
CheckIllegalAccess ==
    /\ pc = "check"
    /\ IF illegalAccessCaught = illegalAccess
         THEN pc' = "apply" /\ UNCHANGED failure
         ELSE Fail("assert_eq")
    /\ NoTransaction
    /\ UNCHANGED << model, store >>

Next ==
    \/ Setup
    \/ EraseDeletedTenants
    \/ LoadTenantIds
    \/ ClearAllTenantData
    \/ BeginTransaction
    \/ OpCreate
    \/ OpDelete
    \/ OpIllegalWrite
    \/ OpLegalWrite
    \/ OpSkip
    \/ CommitTransient
    \/ CommitIllegal
    \/ CommitOk
    \/ CheckIllegalAccess

Spec == Init /\ [][Next]_vars

\* The driver is one sequential actor that the run loop always resumes: whenever it
\* can take a step it takes one.
FairSpec == Spec /\ WF_vars(Next)

\* ----------------------------------------------------------------- claims

\* C1: whenever randomTenantTransaction leaves its retry loop after a successful
\* commit, illegalAccessCaught = illegalAccess.
IsolationSoundness ==
    pc = "check" => (illegalAccessCaught = illegalAccess)

\* C2: a transient store error never by itself makes the post-commit check fail:
\* when no attempt of the transaction was rejected with illegal_tenant_access (so
\* that every failed attempt failed transiently) and the committed attempt planned
\* no illegal write, the check ASSERT_EQ(illegalAccessCaught, illegalAccess) passes.
TransientNeverFailsCheck ==
    (pc = "check" /\ ~illegalAccessCaught /\ ~attemptIllegal)
        => (illegalAccessCaught = illegalAccess)

\* C3: an attempt handed to commit is rejected by the store with
\* illegal_tenant_access exactly when writeToInvalidTenant ran in that attempt.
RejectedIffIllegalPlanned ==
    Committing => (StoreRejects(tr) <=> attemptIllegal)

\* C4: during planning predictTenantCount() is never below 0 and never above
\* tenantCount.
CapacityInvariant ==
    pc = "plan" => (0 <= predictTenantCount /\ predictTenantCount <= tenantCount)

\* C5: while the workload runs, idx2Tid and tid2Idx are inverses of each other.
ModelConsistency ==
    failure = "none" =>
        /\ \A s \in DOMAIN idx2Tid :
              idx2Tid[s] \in DOMAIN tid2Idx /\ tid2Idx[idx2Tid[s]] = s
        /\ \A t \in DOMAIN tid2Idx :
              tid2Idx[t] \in DOMAIN idx2Tid /\ idx2Tid[tid2Idx[t]] = t

\* C6: eraseDeletedTenants removes every deleted Active slot and its identifier
\* from both maps, removes the entries of no other slot, and empties
\* lastDeletedTenants.
DeleteReconciliation ==
    [][pc = "apply" =>
         \A s \in lastDeletedTenants \cap DOMAIN idx2Tid :
            /\ s \notin DOMAIN idx2Tid'
            /\ idx2Tid[s] \notin DOMAIN tid2Idx'
            /\ \A k \in (DOMAIN idx2Tid) \ lastDeletedTenants :
                  /\ k \in DOMAIN idx2Tid' /\ idx2Tid'[k] = idx2Tid[k]
                  /\ idx2Tid[k] \in DOMAIN tid2Idx => idx2Tid[k] \in DOMAIN tid2Idx'
            /\ lastDeletedTenants' = {}]_vars

\* C7: eraseDeletedTenants over slots that are all absent from idx2Tid changes
\* neither map and does not raise.
DeleteReconciliationIdempotent ==
    [][(pc = "apply" /\ lastDeletedTenants # {}
          /\ lastDeletedTenants \cap DOMAIN idx2Tid = {})
         => (idx2Tid' = idx2Tid /\ tid2Idx' = tid2Idx /\ failure' = "none")]_vars

\* C8: when applyTenantChanges reads the keys of lastCreatedTenants, every slot in
\* it is a tenant of the store, so ASSERT(value.present()) does not fail.
CreatedTenantsPresent ==
    /\ pc = "load" => lastCreatedTenants \subseteq DOMAIN storeTenants
    /\ failure # "assert_value_present"

\* C9: lastCreatedTenants and lastDeletedTenants are disjoint in every state.
PendingDisjoint == lastCreatedTenants \cap lastDeletedTenants = {}

\* A slot that was created and then deleted inside one attempt, while another
\* slot is pending creation.
PendingDisjointWitness ==
    /\ pc = "plan"
    /\ lastCreatedTenants # {}
    /\ \E s \in lastDeletedTenants : s \notin DOMAIN idx2Tid /\ tr.ctl[s] = "clear"

\* C10: the retry path leaves lastCreatedTenants, lastDeletedTenants, idx2Tid and
\* tid2Idx as they are and discards the buffered mutations; outside
\* applyTenantChanges no slot loses its pending marker, and applyTenantChanges
\* is entered only from setup or from a committed transaction.
RetryKeepsPending ==
    [][/\ (Committing /\ pc' = "plan") => (UNCHANGED model /\ tr' = EmptyTr)
       /\ pc' = "apply" => pc \in {"setup", "check"}
       /\ pc \notin {"apply", "load"} =>
             (lastCreatedTenants \cup lastDeletedTenants)
                \subseteq (lastCreatedTenants' \cup lastDeletedTenants')]_vars

\* An attempt that follows a rejected one starts with both pending sets non-empty.
RetryKeepsPendingWitness ==
    /\ pc = "plan" /\ i = 0
    /\ illegalAccessCaught
    /\ lastCreatedTenants # {}
    /\ lastDeletedTenants # {}

\* C11: whenever createNewTenant may run (planning, predictTenantCount() <
\* tenantCount), the slot its scan stops at is, for every starting index, neither a
\* key of idx2Tid nor a member of lastCreatedTenants.
CreatePicksAbsentSlot ==
    (Planning /\ predictTenantCount < tenantCount) =>
        \A start \in Slots :
            LET tenantIdx == CreateScan(start, 0) IN
            tenantIdx \notin DOMAIN idx2Tid /\ tenantIdx \notin lastCreatedTenants

\* C12: whenever deleteExistedTenant may run (planning, predictTenantCount() > 0),
\* for every starting index its scan ends at a slot that is in idx2Tid or
\* lastCreatedTenants and not in lastDeletedTenants, and no such slot lies nearer
\* to the starting index going forward with wraparound; the deletion that is then
\* planned marks exactly such a slot.
DeletePicksFirstExisting ==
    [][(Planning /\ predictTenantCount > 0) =>
         LET existed == ((DOMAIN idx2Tid) \cup lastCreatedTenants) \ lastDeletedTenants
             ahead(start, s) == (s - start + tenantCount) % tenantCount
             first(start) == CHOOSE s \in existed :
                                \A t \in existed : ahead(start, s) <= ahead(start, t)
         IN  /\ \A start \in Slots :
                   /\ DeleteScan(start, 0) \in existed
                   /\ DeleteScan(start, 0) = first(start)
             /\ (lastDeletedTenants \subseteq lastDeletedTenants'
                   /\ lastDeletedTenants' # lastDeletedTenants) =>
                  \E start \in Slots :
                     /\ lastDeletedTenants' = lastDeletedTenants \cup {first(start)}
                     /\ lastCreatedTenants' = lastCreatedTenants \ {first(start)}
                     /\ tr'.ctl[first(start)] = "clear"]_vars

\* A deletion has been planned, and from some starting index the next scan has to
\* wrap around past the end of the index range to find its slot.
DeletePicksFirstExistingWitness ==
    /\ Planning /\ predictTenantCount > 0
    /\ \E s \in lastDeletedTenants : tr.ctl[s] = "clear"
    /\ \E start \in Slots :
          /\ start \in lastDeletedTenants
          /\ DeleteScan(start, 0) # -1
          /\ DeleteScan(start, 0) < start

\* C13: whenever writeToInvalidTenant may run, every identifier it can come to is
\* non-negative, which includes that the lookup idx2Tid.at of its first branch
\* succeeds, and is either the identifier idx2Tid holds for a slot this attempt has
\* deleted or an identifier that neither map knows; and when the attempt is handed
\* to commit, no identifier writeToInvalidTenant wrote to is a valid tenant.
InvalidWriteTargets ==
    /\ (Planning /\ predictTenantCount < tenantCount) =>
          \A tenantId \in InvalidTenantIds :
             /\ tenantId >= 0
             /\ \/ \E s \in lastDeletedTenants \cap DOMAIN idx2Tid :
                      tr.ctl[s] = "clear" /\ idx2Tid[s] = tenantId
                \/ /\ tenantId \notin DOMAIN tid2Idx
                   /\ tenantId \notin {idx2Tid[s] : s \in DOMAIN idx2Tid}
    /\ Committing => \A tenantId \in invalidWritten : ~StoreValid(tr, tenantId)

\* C14: whenever writeToExistedTenant may run, the slot it picks from idx2Tid is,
\* for every random index, not in lastDeletedTenants; and when the attempt is
\* handed to commit, every identifier written by writeToExistedTenant alone is a
\* tenant the store accepts, so that no operation of the attempt has deleted it.
LegalWriteTargetsKept ==
    /\ (Planning /\ DOMAIN idx2Tid # {}) =>
          \A start \in Slots : LowerBoundOrBegin(start) \notin lastDeletedTenants
    /\ Committing => \A tenantId \in tr.writes \ invalidWritten : StoreValid(tr, tenantId)

\* C15: once applyTenantChanges has returned, and until the next commit, the
\* slots of idx2Tid are exactly the workload's tenants in the store, and idx2Tid
\* maps each of them to the identifier the store assigned to it.
ModelStoreAgreement ==
    pc \in {"clearData", "txn", "plan"} =>
        /\ DOMAIN idx2Tid = DOMAIN storeTenants
        /\ \A s \in DOMAIN idx2Tid : idx2Tid[s] = storeTenants[s]

\* C16: while an attempt is being planned, predictTenantCount() is the number of
\* tenants the store would hold if the mutations buffered so far were committed.
PredictionAccuracy ==
    pc = "plan" =>
        predictTenantCount =
            Cardinality(((DOMAIN storeTenants) \ StoreDeletes(tr)) \cup StoreCreates(tr))

\* C17: in every state where the planner's gate holds (predictTenantCount() <
\* tenantCount for createNewTenant, predictTenantCount() > 0 for
\* deleteExistedTenant), the scan ends at a slot, from every starting index,
\* before it has gone once around the index range; no scan runs forever.
ScansTerminate ==
    /\ Planning =>
          /\ predictTenantCount < tenantCount =>
                \A start \in Slots : CreateScan(start, 0) \in Slots
          /\ predictTenantCount > 0 =>
                \A start \in Slots : DeleteScan(start, 0) \in Slots
    /\ failure # "scan_never_ends"

\* Both gates hold in the middle of an attempt, and each scan has a starting index
\* from which it must step forward to find its slot.
ScansTerminateWitness ==
    /\ Planning /\ i > 0
    /\ predictTenantCount < tenantCount /\ predictTenantCount > 0
    /\ \E start \in Slots :
          CreateScan(start, 0) \in Slots /\ CreateScan(start, 0) # start
    /\ \E start \in Slots :
          DeleteScan(start, 0) \in Slots /\ DeleteScan(start, 0) # start

\* C18: if from some point on no attempt is thrown back by the store (the store
\* raises only retryable errors and stops raising them), every random transaction
\* being planned reaches a successful commit: the retry loop is never left in any
\* other way.
EventuallyCommits ==
    (<>[][~(Committing /\ pc' = "plan")]_vars) => ((pc = "plan") ~> (pc = "check"))

\* C19: the driver goes setup or commit -> applyTenantChanges (erase, then load)
\* -> clearAllTenantData -> randomTenantTransaction and in no other order, and
\* when randomTenantTransaction starts its first attempt lastCreatedTenants and
\* lastDeletedTenants are both empty.
ReconcileBeforePlan ==
    [][/\ (pc \in {"setup", "check"} /\ pc' # pc) => pc' \in {"apply", "failed"}
       /\ (pc' = "load" /\ pc # "load") => pc = "apply"
       /\ (pc' = "clearData" /\ pc # "clearData") => pc = "load"
       /\ (pc' = "txn" /\ pc # "txn") => pc = "clearData"
       /\ (pc' = "plan" /\ pc # "plan") =>
             /\ pc = "txn"
             /\ lastCreatedTenants = {} /\ lastDeletedTenants = {}
             /\ lastCreatedTenants' = {} /\ lastDeletedTenants' = {}]_vars

\* A transaction that deleted a tenant has committed and has been reconciled, and
\* the first attempt of the next transaction has just begun.
ReconcileBeforePlanWitness ==
    /\ pc = "plan" /\ i = 0 /\ ~illegalAccessCaught /\ ~illegalAccess
    /\ lastCreatedTenants = {} /\ lastDeletedTenants = {}
    /\ DOMAIN idx2Tid # Slots
    /\ DOMAIN storeTenants # Slots

\* C20, as stated: an operation position that draws the legal-write kind performs
\* writeToExistedTenant if and only if predictTenantCount() < tenantCount, and is
\* skipped without substitution otherwise.
LegalWriteGatePredicted ==
    Planning =>
        /\ (ENABLED OpLegalWrite) <=> (predictTenantCount < tenantCount)
        /\ (3 \in SkippedOps) <=> ~(predictTenantCount < tenantCount)

\* C20, amended: an operation position that draws the legal-write kind performs
\* writeToExistedTenant if and only if idx2Tid is not empty, whatever
\* predictTenantCount() is, and is skipped without substitution otherwise.
LegalWriteGate ==
    Planning =>
        /\ (ENABLED OpLegalWrite) <=> (DOMAIN idx2Tid # {})
        /\ (3 \in SkippedOps) <=> (DOMAIN idx2Tid = {})

\* A legal write has been performed in an attempt whose predicted count is
\* tenantCount, where the two gates differ.
LegalWriteGateWitness ==
    /\ Planning
    /\ DOMAIN idx2Tid # {}
    /\ predictTenantCount = tenantCount
    /\ tr.writes \ invalidWritten # {}

====
